---- MODULE Spec2Model ----
(***************************************************************************)
(* CKD stage progression analysis (src/script.py): the archive loop that   *)
(* reduces each archive's conditions to per-patient earliest stage dates   *)
(* and merges them into global_patient_progression_details, the post-loop  *)
(* refinement, the transition calculation and the summary statistics.      *)
(*                                                                         *)
(* Timestamps are whole hours since 1970-01-01 00:00; a Timedelta's .days  *)
(* is the floor of the hour difference divided by 24.  A Python dict is a  *)
(* sequence of <<key, value>> pairs in insertion order.                    *)
(***************************************************************************)
EXTENDS Integers, Sequences, FiniteSets, TLC

VARIABLES
    archive_files,      \* list returned by glob.glob, in the order it is iterated
    idx,                \* position of the for loop over archive_files (1-based)
    pc,                 \* "archive" | "patients" | "transitions" | "stats" | "output" | "done"
    current_staged_conditions_df,  \* staged rows of the archive being merged
    patient_ids,        \* patients of the per-patient loop still to be iterated
    global_patient_progression_details,
    all_ckd_patient_ids_overall_set,
    global_progression_times,
    patient_transition_output_list,
    summary_statistics,
    snapshot,           \* history: the two accumulators when the current archive started
    outcomes,           \* history: how each archive iteration ended, by position
    merged_from         \* history: <<archive position, patient>> pairs whose loop body ran

vars == <<archive_files, idx, pc, current_staged_conditions_df, patient_ids,
          global_patient_progression_details, all_ckd_patient_ids_overall_set,
          global_progression_times, patient_transition_output_list,
          summary_statistics, snapshot, outcomes, merged_from>>

-----------------------------------------------------------------------------
(* Bounds of the model *)

MaxArchives == 2
MaxTotalRows == 3
MaxIncompleteRows == 1
MaxObservations == 4

-----------------------------------------------------------------------------
(* Generic sequence helpers *)

\* Lexicographic order on equal-length tuples of integers (the sort keys).
RECURSIVE LexLess(_, _)
LexLess(a, b) ==
    IF a = <<>> THEN FALSE
    ELSE IF Head(a) < Head(b) THEN TRUE
    ELSE IF Head(a) > Head(b) THEN FALSE
    ELSE LexLess(Tail(a), Tail(b))

\* Positions of s in sorted order; position i goes after every position whose
\* key is not greater than keys[i] (a stable sort).
RECURSIVE InsertByKey(_, _, _)
InsertByKey(i, perm, keys) ==
    IF perm = <<>> THEN <<i>>
    ELSE IF LexLess(keys[i], keys[Head(perm)]) THEN <<i>> \o perm
    ELSE <<Head(perm)>> \o InsertByKey(i, Tail(perm), keys)

RECURSIVE SortedPositions(_, _)
SortedPositions(n, keys) ==
    IF n = 0 THEN <<>>
    ELSE InsertByKey(n, SortedPositions(n - 1, keys), keys)

\* s sorted by keys (keys[i] is the sort key of s[i]), stable.
SortByKeys(s, keys) ==
    LET perm == SortedPositions(Len(s), keys)
    IN  [k \in 1..Len(s) |-> s[perm[k]]]

Range(s) == {s[k] : k \in 1..Len(s)}

RECURSIVE SumSeq(_)
SumSeq(s) == IF s = <<>> THEN 0 ELSE Head(s) + SumSeq(Tail(s))

-----------------------------------------------------------------------------
(* Python dict: insertion-ordered sequence of <<key, value>> pairs *)

DictKeys(d) == {d[k][1] : k \in 1..Len(d)}
DictHas(d, key) == \E k \in 1..Len(d) : d[k][1] = key
DictGet(d, key) == d[CHOOSE k \in 1..Len(d) : d[k][1] = key][2]
DictSet(d, key, val) ==
    IF DictHas(d, key)
    THEN [k \in 1..Len(d) |-> IF d[k][1] = key THEN <<key, val>> ELSE d[k]]
    ELSE Append(d, <<key, val>>)
\* dict equality ignores insertion order
DictFn(d) == [key \in DictKeys(d) |-> DictGet(d, key)]

-----------------------------------------------------------------------------
(* Dates *)

NaT == -1
nan == -1

\* Days from 1970-01-01 to the civil date y-m-d (proleptic Gregorian).
DaysFromCivil(y, m, d) ==
    LET yy  == IF m <= 2 THEN y - 1 ELSE y
        era == yy \div 400
        yoe == yy - era * 400
        mp  == (m + 9) % 12
        doy == (153 * mp + 2) \div 5 + d - 1
        doe == yoe * 365 + yoe \div 4 - yoe \div 100 + doy
    IN  era * 146097 + doe - 719468

Timestamp(y, m, d, h) == DaysFromCivil(y, m, d) * 24 + h

\* A raw START cell: a parsable date(-time) text, or text pandas cannot parse.
Cell(y, m, d, h) == [ok |-> TRUE, y |-> y, m |-> m, d |-> d, h |-> h]
BadCell == [ok |-> FALSE, y |-> 0, m |-> 0, d |-> 0, h |-> 0]

to_datetime(cell) ==
    IF cell.ok THEN Timestamp(cell.y, cell.m, cell.d, cell.h) ELSE NaT

CKD_DATE_RANGE_START == Timestamp(1997, 1, 1, 0)
CKD_DATE_RANGE_END == Timestamp(2023, 12, 31, 0)

\* Comparisons with NaT are False.
InDateRange(ts) ==
    /\ ts # NaT
    /\ ts >= CKD_DATE_RANGE_START
    /\ ts <= CKD_DATE_RANGE_END

\* Variant of TimedeltaDays: both end days are counted.
TimedeltaDaysInclusive(date_to, date_from) == (date_to - date_from) \div 24 + 1

\* Timedelta.days
TimedeltaDays(date_to, date_from) == (date_to - date_from) \div 24

-----------------------------------------------------------------------------
(* Configuration *)

ckd_snomed_codes ==
    {"431855005", "431856006", "433144002", "431857002", "433146000",
     "709044004", "714153000", "714152005", "713313000", "722149000",
     "726018006", "723373006"}

map_code_to_stage(code_str) ==
    IF code_str = "431855005" THEN 1
    ELSE IF code_str = "431856006" THEN 2
    ELSE IF code_str = "433144002" THEN 3
    ELSE IF code_str = "431857002" THEN 4
    ELSE IF code_str \in {"433146000", "714153000"} THEN 5
    ELSE IF code_str = "714152005" THEN 6
    ELSE IF code_str = "709044004" THEN 0
    ELSE nan

stage_transitions ==
    << <<"Stage 1 to Stage 2", 1, 2>>,
       <<"Stage 2 to Stage 3", 2, 3>>,
       <<"Stage 3 to Stage 4", 3, 4>>,
       <<"Stage 4 to Stage 5", 4, 5>>,
       <<"Stage 5 to End Stage Renal Disease", 5, 6>> >>

TransitionNames == {stage_transitions[k][1] : k \in 1..Len(stage_transitions)}

-----------------------------------------------------------------------------
(* Inputs: archives and the rows of their conditions.csv *)

\* Patient ids, in Python's str order.
Patients == <<"P1", "P2">>
PatientRank(p) == CHOOSE k \in 1..Len(Patients) : Patients[k] = p

Row(p, c, s) == [PATIENT |-> p, CODE |-> c, START |-> s]

RowPool ==
    { Row("P1", "431855005", Cell(2000, 1, 1, 0)),
      Row("P1", "431855005", Cell(2000, 6, 1, 0)),
      Row("P1", "431856006", Cell(2000, 6, 1, 0)),
      Row("P1", "431856006", Cell(2000, 5, 1, 0)),
      Row("P1", "431856006", Cell(2000, 1, 1, 12)),
      Row("P1", "433144002", Cell(2000, 6, 1, 0)),
      Row("P2", "431855005", Cell(2000, 5, 1, 0)),
      Row("P2", "431856006", BadCell),
      Row("P2", "431855005", Cell(1996, 12, 31, 0)),
      Row("P2", "709044004", Cell(2000, 1, 1, 0)),
      Row("P2", "713313000", Cell(2000, 1, 1, 0)),
      Row("P2", "44054006", Cell(2000, 1, 1, 0)) }

AllColumns == {"PATIENT", "CODE", "START"}
ColumnSets == {AllColumns} \cup {AllColumns \ {c} : c \in AllColumns}

\* A conditions.csv without a column has no cells of that column.
RowWithColumns(r, columns) ==
    [PATIENT |-> IF "PATIENT" \in columns THEN r.PATIENT ELSE "",
     CODE    |-> IF "CODE" \in columns THEN r.CODE ELSE "",
     START   |-> IF "START" \in columns THEN r.START ELSE BadCell]

\* The conditions.csv of k rows with the given columns
RECURSIVE RowLists(_, _)
RowLists(k, columns) ==
    IF k = 0 THEN {<<>>}
    ELSE LET shorter == RowLists(k - 1, columns)
         IN  { Append(rows, RowWithColumns(r, columns)) :
               rows \in shorter, r \in RowPool }

\* Readable archives whose conditions.csv has k rows; one that lacks a
\* column has at most MaxIncompleteRows rows.
ReadableArchives(k) ==
    UNION { { [kind |-> "ok", columns |-> c, rows |-> rows] :
              rows \in RowLists(k, c) } :
            c \in IF k <= MaxIncompleteRows THEN ColumnSets ELSE {AllColumns} }

\* An archive tarfile cannot open, and one without a conditions.csv member.
SkippedArchives ==
    { [kind |-> "unreadable", columns |-> {}, rows |-> <<>>],
      [kind |-> "no_conditions_csv", columns |-> {}, rows |-> <<>>] }

ArchivesWithRows(k) ==
    ReadableArchives(k) \cup (IF k = 0 THEN SkippedArchives ELSE {})

\* Lists of at most n archives holding at most budget rows together.
RECURSIVE ArchiveLists(_, _)
ArchiveLists(n, budget) ==
    IF n = 0 THEN {<<>>}
    ELSE {<<>>} \cup
         UNION { LET firsts == ArchivesWithRows(k)
                     rests == ArchiveLists(n - 1, budget - k)
                 IN  { <<a>> \o rest : a \in firsts, rest \in rests } :
                 k \in 0..budget }

-----------------------------------------------------------------------------
(* Per-archive normalisation (lines 126-165) *)

\* lines 126-127: START converted where the column exists
ConvertedRows(a) ==
    [k \in 1..Len(a.rows) |->
        [PATIENT |-> a.rows[k].PATIENT, CODE |-> a.rows[k].CODE,
         START |-> IF "START" \in a.columns
                   THEN to_datetime(a.rows[k].START) ELSE NaT]]

\* lines 132-136: the date-range filter, applied where START exists
DateFiltered(a) ==
    IF "START" \in a.columns
    THEN SelectSeq(ConvertedRows(a), LAMBDA r : InDateRange(r.START))
    ELSE ConvertedRows(a)

\* Variant of temp_ckd_conditions_df: rows kept by the classifier's result
\* instead of by the code list.
temp_ckd_conditions_classified(a) ==
    SelectSeq(DateFiltered(a), LAMBDA r : map_code_to_stage(r.CODE) # nan)

\* line 143
temp_ckd_conditions_df(a) ==
    SelectSeq(DateFiltered(a), LAMBDA r : r.CODE \in ckd_snomed_codes)

\* Series.unique(): values in order of first appearance
RECURSIVE Unique(_)
Unique(s) ==
    IF s = <<>> THEN <<>>
    ELSE LET init == Unique(SubSeq(s, 1, Len(s) - 1))
             x == s[Len(s)]
         IN  IF x \in Range(init) THEN init ELSE Append(init, x)

PatientColumn(df) == [k \in 1..Len(df) |-> df[k].PATIENT]

\* line 149
current_archive_ckd_patient_ids(a) == Unique(PatientColumn(temp_ckd_conditions_df(a)))

\* lines 153-155: CKD_STAGE added, rows without a stage dropped
StageMapped(a) ==
    SelectSeq(
        [k \in 1..Len(temp_ckd_conditions_df(a)) |->
            [PATIENT |-> temp_ckd_conditions_df(a)[k].PATIENT,
             START |-> temp_ckd_conditions_df(a)[k].START,
             CKD_STAGE |-> map_code_to_stage(temp_ckd_conditions_df(a)[k].CODE)]],
        LAMBDA r : r.CKD_STAGE # nan)

\* Variant of StagedConditions: stage 0 is not filtered out.
StagedConditionsWithGeneral(a) == StageMapped(a)

\* line 158
StagedConditions(a) == SelectSeq(StageMapped(a), LAMBDA r : r.CKD_STAGE # 0)

\* line 165: sort_values(by=['PATIENT', 'START'])
SortedStagedConditions(a) ==
    SortByKeys(StagedConditions(a),
               [k \in 1..Len(StagedConditions(a)) |->
                   <<PatientRank(StagedConditions(a)[k].PATIENT),
                     StagedConditions(a)[k].START>>])

-----------------------------------------------------------------------------
(* Per-patient reduction and merge (lines 169-202) *)

\* line 170
patient_data_in_file(df, patient_id) ==
    SelectSeq(df, LAMBDA r : r.PATIENT = patient_id)

\* line 174: sort_values(by=['START', 'CKD_STAGE'], ascending=[True, False])
SortStartStageDesc(df) ==
    SortByKeys(df, [k \in 1..Len(df) |-> <<df[k].START, 0 - df[k].CKD_STAGE>>])

\* Variant of DropDuplicateStages: keep='last'.
RECURSIVE DropDuplicateStagesKeepLast(_)
DropDuplicateStagesKeepLast(df) ==
    IF df = <<>> THEN <<>>
    ELSE LET rest == DropDuplicateStagesKeepLast(Tail(df))
         IN  IF \E k \in 1..Len(rest) : rest[k].CKD_STAGE = Head(df).CKD_STAGE
             THEN rest ELSE <<Head(df)>> \o rest

\* line 176: drop_duplicates(subset=['CKD_STAGE'], keep='first')
RECURSIVE DropDuplicateStages(_)
DropDuplicateStages(df) ==
    IF df = <<>> THEN <<>>
    ELSE LET init == DropDuplicateStages(SubSeq(df, 1, Len(df) - 1))
             r == df[Len(df)]
         IN  IF \E k \in 1..Len(init) : init[k].CKD_STAGE = r.CKD_STAGE
             THEN init ELSE Append(init, r)

\* line 178: sort_values('START')
SortStart(df) == SortByKeys(df, [k \in 1..Len(df) |-> <<df[k].START>>])

\* lines 181-190: rows folded into temp_stages_for_patient_this_file
RECURSIVE BuildTempStages(_)
BuildTempStages(df) ==
    IF df = <<>> THEN <<>>
    ELSE LET temp == BuildTempStages(SubSeq(df, 1, Len(df) - 1))
             diagnosed_stage == df[Len(df)].CKD_STAGE
             diagnosis_date == df[Len(df)].START
         IN  IF \/ ~DictHas(temp, diagnosed_stage)
                \/ diagnosis_date < DictGet(temp, diagnosed_stage)
             THEN DictSet(temp, diagnosed_stage, diagnosis_date)
             ELSE temp

temp_stages_for_patient_this_file(df, patient_id) ==
    BuildTempStages(SortStart(DropDuplicateStages(SortStartStageDesc(
        patient_data_in_file(df, patient_id)))))

\* Variant of MergeStages: the incoming date always replaces the stored one.
RECURSIVE MergeStagesLastWins(_, _)
MergeStagesLastWins(diagnoses, temp) ==
    IF temp = <<>> THEN diagnoses
    ELSE MergeStagesLastWins(DictSet(diagnoses, Head(temp)[1], Head(temp)[2]),
                             Tail(temp))

\* Variant of MergeStages: the comparison is reversed, the later date is kept.
RECURSIVE MergeStagesLatest(_, _)
MergeStagesLatest(diagnoses, temp) ==
    IF temp = <<>> THEN diagnoses
    ELSE MergeStagesLatest(
             IF \/ ~DictHas(diagnoses, Head(temp)[1])
                \/ Head(temp)[2] > DictGet(diagnoses, Head(temp)[1])
             THEN DictSet(diagnoses, Head(temp)[1], Head(temp)[2])
             ELSE diagnoses,
             Tail(temp))

\* lines 199-202: the stages of one file merged into a patient's diagnoses
RECURSIVE MergeStages(_, _)
MergeStages(diagnoses, temp) ==
    IF temp = <<>> THEN diagnoses
    ELSE LET stage == Head(temp)[1]
             date_val == Head(temp)[2]
         IN  MergeStages(
                 IF \/ ~DictHas(diagnoses, stage)
                    \/ date_val < DictGet(diagnoses, stage)
                 THEN DictSet(diagnoses, stage, date_val)
                 ELSE diagnoses,
                 Tail(temp))

\* A patient's entry; 'chronological_diagnoses' is absent (read as empty)
\* until the post-loop refinement adds it.
Entry(diagnoses, chronological) ==
    [diagnoses |-> diagnoses, chronological_diagnoses |-> chronological]

\* lines 192-202
MergePatient(details, patient_id, temp) ==
    IF temp = <<>> THEN details
    ELSE IF ~DictHas(details, patient_id)
    THEN DictSet(details, patient_id, Entry(temp, <<>>))
    ELSE DictSet(details, patient_id,
                 Entry(MergeStages(DictGet(details, patient_id).diagnoses, temp),
                       DictGet(details, patient_id).chronological_diagnoses))

-----------------------------------------------------------------------------
(* Post-loop refinement (lines 219-236) *)

\* line 224: dict(sorted(diagnoses.items())), by stage
SortedByStage(diagnoses) ==
    SortByKeys(diagnoses, [k \in 1..Len(diagnoses) |-> <<diagnoses[k][1]>>])

\* lines 228-230: sorted(..., key=lambda item: item[1]), by date
SortedByDate(diagnoses) ==
    SortByKeys(diagnoses, [k \in 1..Len(diagnoses) |-> <<diagnoses[k][2]>>])

\* lines 221-236: entries with diagnoses are sorted and given their
\* chronological view; entries without are removed
RefineDetails(details) ==
    LET kept == SelectSeq(details, LAMBDA item : item[2].diagnoses # <<>>)
    IN  [k \in 1..Len(kept) |->
            <<kept[k][1],
              Entry(SortedByStage(kept[k][2].diagnoses),
                    SortedByDate(SortedByStage(kept[k][2].diagnoses)))>>]

-----------------------------------------------------------------------------
(* Transition calculation (lines 239-266) *)

\* lines 254-258: the transition is observed for this patient
TransitionObserved(diagnoses, from_stage, to_stage) ==
    /\ DictHas(diagnoses, from_stage)
    /\ DictHas(diagnoses, to_stage)
    /\ DictGet(diagnoses, to_stage) > DictGet(diagnoses, from_stage)

\* line 259
duration_days(diagnoses, from_stage, to_stage) ==
    TimedeltaDays(DictGet(diagnoses, to_stage), DictGet(diagnoses, from_stage))

\* lines 253-263 for one patient: the transitions observed, in configured order
RECURSIVE CalculatedTransitions(_, _)
CalculatedTransitions(diagnoses, n) ==
    IF n = 0 THEN <<>>
    ELSE LET t == stage_transitions[n]
             init == CalculatedTransitions(diagnoses, n - 1)
         IN  IF TransitionObserved(diagnoses, t[2], t[3])
             THEN Append(init, [transition |-> t[1],
                                duration_days |-> duration_days(diagnoses, t[2], t[3])])
             ELSE init

\* strftime('%Y-%m-%d'): the day of a timestamp, as days since 1970-01-01
DateOf(ts) == ts \div 24

\* lines 246-251
PatientRecord(item) ==
    [patient_id |-> item[1],
     stage_diagnoses_dates |->
        [k \in 1..Len(item[2].chronological_diagnoses) |->
            [stage |-> item[2].chronological_diagnoses[k][1],
             date |-> DateOf(item[2].chronological_diagnoses[k][2])]],
     calculated_transitions |->
        CalculatedTransitions(item[2].diagnoses, Len(stage_transitions))]

\* line 260: the durations appended for one transition, in the order the
\* patients are iterated
RECURSIVE ProgressionTimes(_, _)
ProgressionTimes(details, t) ==
    IF details = <<>> THEN <<>>
    ELSE LET init == ProgressionTimes(SubSeq(details, 1, Len(details) - 1), t)
             diagnoses == details[Len(details)][2].diagnoses
         IN  IF TransitionObserved(diagnoses, t[2], t[3])
             THEN Append(init, duration_days(diagnoses, t[2], t[3]))
             ELSE init

\* lines 240-260
GlobalProgressionTimes(details) ==
    [k \in 1..Len(stage_transitions) |->
        <<stage_transitions[k][1], ProgressionTimes(details, stage_transitions[k])>>]

\* lines 243-266
PatientTransitionOutputList(details) ==
    SelectSeq([k \in 1..Len(details) |-> PatientRecord(details[k])],
              LAMBDA rec : rec.stage_diagnoses_dates # <<>>)

-----------------------------------------------------------------------------
(* Summary statistics (lines 269-306) *)

\* A reported number in hundredths, or the 'N/A' text
NotAvailable == [na |-> TRUE, hundredths |-> 0]
Reported(h) == [na |-> FALSE, hundredths |-> h]

\* IEEE-754 binary64, as numpy computes with: a positive number is its 53
\* significand bits m, most significant first, and an exponent e, worth
\* BitsValue(m) * 2^e; zero has no bits.
MantissaBits == 53
Zero == [m |-> <<>>, e |-> 0]

RECURSIVE Bits(_)
Bits(n) == IF n = 0 THEN <<>> ELSE Append(Bits(n \div 2), n % 2)

RECURSIVE BitsValue(_)
BitsValue(bits) ==
    IF bits = <<>> THEN 0
    ELSE 2 * BitsValue(SubSeq(bits, 1, Len(bits) - 1)) + bits[Len(bits)]

RECURSIVE Increment(_)
Increment(bits) ==
    IF bits = <<>> THEN <<>>
    ELSE IF bits[Len(bits)] = 0
         THEN Append(SubSeq(bits, 1, Len(bits) - 1), 1)
         ELSE Append(Increment(SubSeq(bits, 1, Len(bits) - 1)), 0)

\* Round to nearest, ties to even: tail is -1, 0 or 1 as the part cut off is
\* below, equal to or above half a unit in the last place.
Rounded(m, e, tail) ==
    IF ~(tail = 1 \/ (tail = 0 /\ m[Len(m)] = 1)) THEN [m |-> m, e |-> e]
    ELSE IF \A k \in 1..Len(m) : m[k] = 1
         THEN [m |-> <<1>> \o [k \in 1..(Len(m) - 1) |-> 0], e |-> e + 1]
         ELSE [m |-> Increment(m), e |-> e]

\* The quotient by long division: (BitsValue(m) + r / den) * 2^e so far.
RECURSIVE Quotient(_, _, _, _)
Quotient(m, e, r, den) ==
    IF Len(m) = MantissaBits
    THEN Rounded(m, e, IF 2 * r > den THEN 1 ELSE IF 2 * r = den THEN 0 ELSE -1)
    ELSE LET bit == IF 2 * r >= den THEN 1 ELSE 0
         IN  Quotient(IF m = <<>> /\ bit = 0 THEN <<>> ELSE Append(m, bit),
                      e - 1, 2 * r - bit * den, den)

\* float(num) / den for integers num >= 0, den > 0
float_divide(num, den) ==
    IF num = 0 THEN Zero ELSE Quotient(Bits(num \div den), 0, num % den, den)

\* bits * c + carry, exactly
RECURSIVE TimesSmall(_, _, _)
TimesSmall(bits, c, carry) ==
    IF bits = <<>> THEN Bits(carry)
    ELSE LET t == bits[Len(bits)] * c + carry
         IN  IF t % 2 = 0
             THEN Append(TimesSmall(SubSeq(bits, 1, Len(bits) - 1), c, t \div 2), 0)
             ELSE Append(TimesSmall(SubSeq(bits, 1, Len(bits) - 1), c, t \div 2), 1)

\* x * c for an integer c > 0
float_multiply(x, c) ==
    IF x.m = <<>> THEN Zero
    ELSE LET bits == TimesSmall(x.m, c, 0)
             d == Len(bits) - MantissaBits
         IN  IF d <= 0
             THEN [m |-> bits \o [k \in 1..(0 - d) |-> 0], e |-> x.e + d]
             ELSE LET dropped == BitsValue(SubSeq(bits, MantissaBits + 1, Len(bits)))
                      half == 2 ^ (d - 1)
                  IN  Rounded(SubSeq(bits, 1, MantissaBits), x.e + d,
                              IF dropped > half THEN 1
                              ELSE IF dropped = half THEN 0 ELSE -1)

\* np.rint: the nearest integer, ties to even
rint(x) ==
    IF x.m = <<>> THEN 0
    ELSE IF x.e >= 0 THEN BitsValue(x.m) * 2 ^ x.e
    ELSE LET f == 0 - x.e
             padded == [k \in 1..(IF f >= Len(x.m) THEN f + 1 - Len(x.m) ELSE 0) |-> 0]
                       \o x.m
             n == Len(padded) - f
             whole == BitsValue(SubSeq(padded, 1, n))
             tail == IF padded[n + 1] = 0 THEN -1
                     ELSE IF \E k \in (n + 2)..Len(padded) : padded[k] = 1 THEN 1
                     ELSE 0
         IN  IF tail = 1 \/ (tail = 0 /\ whole % 2 = 1) THEN whole + 1 ELSE whole

\* lines 301-302: round(x, 2) of a numpy float64, rint(x * 100) / 100, in
\* hundredths
round_2(x) == rint(float_multiply(x, 100))

\* line 273: np.mean(durations)
np_mean(durations) == float_divide(SumSeq(durations), Len(durations))

\* lines 273, 301: round(np.mean(durations), 2)
mean_duration(durations) == round_2(np_mean(durations))

SortedValues(durations) ==
    SortByKeys(durations, [k \in 1..Len(durations) |-> <<durations[k]>>])

\* line 274: np.median(durations), the mean of the middle values
np_median(durations) ==
    LET s == SortedValues(durations)
        n == Len(s)
    IN  IF n % 2 = 1 THEN float_divide(s[(n + 1) \div 2], 1)
        ELSE float_divide(s[n \div 2] + s[n \div 2 + 1], 2)

\* lines 274, 302: round(np.median(durations), 2)
median_duration(durations) == round_2(np_median(durations))

\* line 277: collections.Counter(durations), keys in order of first occurrence
RECURSIVE Counter(_)
Counter(durations) ==
    IF durations = <<>> THEN <<>>
    ELSE LET init == Counter(SubSeq(durations, 1, Len(durations) - 1))
             x == durations[Len(durations)]
         IN  DictSet(init, x, IF DictHas(init, x) THEN DictGet(init, x) + 1 ELSE 1)

\* line 280
max_freq(data_counts) ==
    CHOOSE f \in {data_counts[k][2] : k \in 1..Len(data_counts)} :
        \A k \in 1..Len(data_counts) : data_counts[k][2] <= f

\* line 282: the values of maximal frequency, in the Counter's order
modes(data_counts) ==
    LET hits == SelectSeq(data_counts, LAMBDA item : item[2] = max_freq(data_counts))
    IN  [k \in 1..Len(hits) |-> hits[k][1]]

\* lines 271-306 for one transition
SummaryEntry(transition_name, durations) ==
    IF durations # <<>>
    THEN [Transition |-> transition_name,
          Mean |-> Reported(mean_duration(durations)),
          Median |-> Reported(median_duration(durations)),
          ModeNA |-> FALSE,
          Modes |-> modes(Counter(durations)),
          ModeFrequency |-> max_freq(Counter(durations)),
          Count |-> Len(durations)]
    ELSE [Transition |-> transition_name,
          Mean |-> NotAvailable,
          Median |-> NotAvailable,
          ModeNA |-> TRUE,
          Modes |-> <<>>,
          ModeFrequency |-> 0,
          Count |-> 0]

SummaryStatistics(times) ==
    [k \in 1..Len(times) |-> SummaryEntry(times[k][1], times[k][2])]

-----------------------------------------------------------------------------
(* The run *)

Accumulators(details, members) == [details |-> details, members |-> members]

Init ==
    /\ archive_files \in ArchiveLists(MaxArchives, MaxTotalRows)
    /\ idx = 1
    /\ pc = "archive"
    /\ current_staged_conditions_df = <<>>
    /\ patient_ids = <<>>
    /\ global_patient_progression_details = <<>>
    /\ all_ckd_patient_ids_overall_set = {}
    /\ global_progression_times = <<>>
    /\ patient_transition_output_list = <<>>
    /\ summary_statistics = <<>>
    /\ snapshot = Accumulators(<<>>, {})
    /\ outcomes = <<>>
    /\ merged_from = {}

AtArchive == pc = "archive" /\ idx <= Len(archive_files)
archive == archive_files[idx]

PostLoopUnchanged ==
    UNCHANGED <<archive_files, global_progression_times,
                patient_transition_output_list, summary_statistics>>

\* The iteration ends (continue, fall-through or except handler) without
\* entering the per-patient loop.
NextArchive(outcome) ==
    /\ idx' = idx + 1
    /\ pc' = "archive"
    /\ outcomes' = Append(outcomes, outcome)
    /\ snapshot' = Accumulators(global_patient_progression_details,
                                all_ckd_patient_ids_overall_set)
    /\ UNCHANGED <<current_staged_conditions_df, patient_ids,
                   global_patient_progression_details, merged_from>>
    /\ PostLoopUnchanged

\* lines 68, 208-213: tarfile.open raises
ArchiveUnreadable ==
    /\ AtArchive
    /\ archive.kind = "unreadable"
    /\ UNCHANGED all_ckd_patient_ids_overall_set
    /\ NextArchive("unreadable")

\* lines 92-97
ArchiveMissingCsv ==
    /\ AtArchive
    /\ archive.kind = "no_conditions_csv"
    /\ UNCHANGED all_ckd_patient_ids_overall_set
    /\ NextArchive("no_csv")

HasCodeAndPatient(a) == "CODE" \in a.columns /\ "PATIENT" \in a.columns

\* lines 140, 204-205
MissingCodeOrPatient ==
    /\ AtArchive
    /\ archive.kind = "ok"
    /\ ~HasCodeAndPatient(archive)
    /\ UNCHANGED all_ckd_patient_ids_overall_set
    /\ NextArchive("missing_columns")

\* lines 145-147
NoCkdConditions ==
    /\ AtArchive
    /\ archive.kind = "ok"
    /\ HasCodeAndPatient(archive)
    /\ temp_ckd_conditions_df(archive) = <<>>
    /\ UNCHANGED all_ckd_patient_ids_overall_set
    /\ NextArchive("no_ckd")

\* line 150
MembershipUpdated(a) ==
    all_ckd_patient_ids_overall_set \cup Range(current_archive_ckd_patient_ids(a))

\* lines 149-150, 160-162
NoStagedConditions ==
    /\ AtArchive
    /\ archive.kind = "ok"
    /\ HasCodeAndPatient(archive)
    /\ temp_ckd_conditions_df(archive) # <<>>
    /\ StagedConditions(archive) = <<>>
    /\ all_ckd_patient_ids_overall_set' = MembershipUpdated(archive)
    /\ NextArchive("no_staged")

\* lines 149-150, 165, 212-213: sort_values(by=['PATIENT', 'START']) raises
\* KeyError when conditions.csv has no START column
SortKeyError ==
    /\ AtArchive
    /\ archive.kind = "ok"
    /\ HasCodeAndPatient(archive)
    /\ StagedConditions(archive) # <<>>
    /\ "START" \notin archive.columns
    /\ all_ckd_patient_ids_overall_set' = MembershipUpdated(archive)
    /\ NextArchive("error_before_loop")

\* lines 149-169: the per-patient loop is entered
StartPatientLoop ==
    /\ AtArchive
    /\ archive.kind = "ok"
    /\ HasCodeAndPatient(archive)
    /\ StagedConditions(archive) # <<>>
    /\ "START" \in archive.columns
    /\ all_ckd_patient_ids_overall_set' = MembershipUpdated(archive)
    /\ current_staged_conditions_df' = SortedStagedConditions(archive)
    /\ patient_ids' = Unique(PatientColumn(SortedStagedConditions(archive)))
    /\ pc' = "patients"
    /\ snapshot' = Accumulators(global_patient_progression_details,
                                all_ckd_patient_ids_overall_set)
    /\ UNCHANGED <<idx, outcomes, global_patient_progression_details, merged_from>>
    /\ PostLoopUnchanged

\* lines 169-202: one iteration of the per-patient loop
PatientIteration ==
    /\ pc = "patients"
    /\ patient_ids # <<>>
    /\ global_patient_progression_details' =
           MergePatient(global_patient_progression_details, Head(patient_ids),
                        temp_stages_for_patient_this_file(
                            current_staged_conditions_df, Head(patient_ids)))
    /\ merged_from' = merged_from \cup {<<idx, Head(patient_ids)>>}
    /\ patient_ids' = Tail(patient_ids)
    /\ UNCHANGED <<idx, pc, current_staged_conditions_df,
                   all_ckd_patient_ids_overall_set, snapshot, outcomes>>
    /\ PostLoopUnchanged

\* lines 212-213: an exception raised inside an iteration of the per-patient
\* loop, before its merge write, ends the archive in the except handler
LoopException ==
    /\ pc = "patients"
    /\ patient_ids # <<>>
    /\ idx' = idx + 1
    /\ pc' = "archive"
    /\ outcomes' = Append(outcomes, "error_in_loop")
    /\ patient_ids' = <<>>
    /\ current_staged_conditions_df' = <<>>
    /\ UNCHANGED <<global_patient_progression_details,
                   all_ckd_patient_ids_overall_set, snapshot, merged_from>>
    /\ PostLoopUnchanged

\* line 203: the loop is exhausted
EndPatientLoop ==
    /\ pc = "patients"
    /\ patient_ids = <<>>
    /\ idx' = idx + 1
    /\ pc' = "archive"
    /\ outcomes' = Append(outcomes, "merged")
    /\ current_staged_conditions_df' = <<>>
    /\ UNCHANGED <<patient_ids, global_patient_progression_details,
                   all_ckd_patient_ids_overall_set, snapshot, merged_from>>
    /\ PostLoopUnchanged

LoopUnchanged ==
    UNCHANGED <<archive_files, idx, current_staged_conditions_df, patient_ids,
                all_ckd_patient_ids_overall_set, snapshot, outcomes, merged_from>>

\* lines 219-236
Refine ==
    /\ pc = "archive"
    /\ idx > Len(archive_files)
    /\ global_patient_progression_details' =
           RefineDetails(global_patient_progression_details)
    /\ pc' = "transitions"
    /\ UNCHANGED <<global_progression_times, patient_transition_output_list,
                   summary_statistics>>
    /\ LoopUnchanged

\* lines 239-266
CalculateTransitions ==
    /\ pc = "transitions"
    /\ global_progression_times' =
           GlobalProgressionTimes(global_patient_progression_details)
    /\ patient_transition_output_list' =
           PatientTransitionOutputList(global_patient_progression_details)
    /\ pc' = "stats"
    /\ UNCHANGED <<global_patient_progression_details, summary_statistics>>
    /\ LoopUnchanged

\* lines 269-306
ComputeStatistics ==
    /\ pc = "stats"
    /\ summary_statistics' = SummaryStatistics(global_progression_times)
    /\ pc' = "output"
    /\ UNCHANGED <<global_patient_progression_details, global_progression_times,
                   patient_transition_output_list>>
    /\ LoopUnchanged

\* line 331: patient_transition_output_list.sort(key=lambda x: x['patient_id'])
SortedByPatientId(list) ==
    SortByKeys(list, [k \in 1..Len(list) |-> <<PatientRank(list[k].patient_id)>>])

\* lines 309-353: the findings are printed, and where there are patient
\* records the list of them is sorted in place by patient id
OutputFindings ==
    /\ pc = "output"
    /\ patient_transition_output_list' =
           IF patient_transition_output_list = <<>>
           THEN patient_transition_output_list
           ELSE SortedByPatientId(patient_transition_output_list)
    /\ pc' = "done"
    /\ UNCHANGED <<global_patient_progression_details, global_progression_times,
                   summary_statistics>>
    /\ LoopUnchanged

Next ==
    \/ ArchiveUnreadable
    \/ ArchiveMissingCsv
    \/ MissingCodeOrPatient
    \/ NoCkdConditions
    \/ NoStagedConditions
    \/ SortKeyError
    \/ StartPatientLoop
    \/ PatientIteration
    \/ LoopException
    \/ EndPatientLoop
    \/ Refine
    \/ CalculateTransitions
    \/ ComputeStatistics
    \/ OutputFindings

Spec == Init /\ [][Next]_vars

-----------------------------------------------------------------------------
(* The statistics engine on its own: the durations of one transition are   *)
(* drawn from bounded lists and ComputeStatistics is applied to them.      *)

DurationPool == {5, 9, 10, 20}

DurationLists == UNION {[1..n -> DurationPool] : n \in 0..MaxObservations}

InitStats ==
    /\ archive_files = <<>>
    /\ idx = 1
    /\ pc = "stats"
    /\ current_staged_conditions_df = <<>>
    /\ patient_ids = <<>>
    /\ global_patient_progression_details = <<>>
    /\ all_ckd_patient_ids_overall_set = {}
    /\ \E t \in 1..Len(stage_transitions), durations \in DurationLists :
          global_progression_times =
              [k \in 1..Len(stage_transitions) |->
                  <<stage_transitions[k][1], IF k = t THEN durations ELSE <<>>>>]
    /\ patient_transition_output_list = <<>>
    /\ summary_statistics = <<>>
    /\ snapshot = Accumulators(<<>>, {})
    /\ outcomes = <<>>
    /\ merged_from = {}

NextStats ==
    \/ ComputeStatistics
    \/ OutputFindings

SpecStats == InitStats /\ [][NextStats]_vars

-----------------------------------------------------------------------------
(* Views used by the properties *)

\* GlobalProgression as a mapping: patient -> (stage -> date)
Progression(details) ==
    [p \in DictKeys(details) |-> DictFn(DictGet(details, p).diagnoses)]

GlobalProgression == Progression(global_patient_progression_details)

\* The records of an archive that have a date inside the window and a code
\* the classifier maps to a stage 0..6, as <<patient, stage, timestamp>>.
InWindowRecords(a) ==
    IF a.kind = "ok" /\ a.columns = AllColumns
    THEN { <<a.rows[k].PATIENT, map_code_to_stage(a.rows[k].CODE),
             to_datetime(a.rows[k].START)>> :
           k \in { j \in 1..Len(a.rows) :
                     /\ a.rows[j].START.ok
                     /\ to_datetime(a.rows[j].START) >= CKD_DATE_RANGE_START
                     /\ to_datetime(a.rows[j].START) <= CKD_DATE_RANGE_END
                     /\ map_code_to_stage(a.rows[j].CODE) \in 0..6 } }
    ELSE {}

\* The dates observed for (p, s) in the archives whose loop body ran for p.
ObservedDates(p, s) ==
    { r[3] : r \in { x \in UNION { InWindowRecords(archive_files[k]) :
                                      k \in { j \in 1..Len(archive_files) :
                                                <<j, p>> \in merged_from } } :
                       x[1] = p /\ x[2] = s } }

SetMin(S) == CHOOSE x \in S : \A y \in S : x <= y

\* lines 169-202: the whole per-patient loop, no iteration raising
RECURSIVE MergePatients(_, _, _)
MergePatients(details, df, ids) ==
    IF ids = <<>> THEN details
    ELSE MergePatients(
             MergePatient(details, Head(ids),
                          temp_stages_for_patient_this_file(df, Head(ids))),
             df, Tail(ids))

\* lines 65-213: one iteration of the archive loop, no iteration of the
\* per-patient loop raising
RunArchive(acc, a) ==
    IF a.kind # "ok" \/ ~HasCodeAndPatient(a) \/ temp_ckd_conditions_df(a) = <<>>
    THEN acc
    ELSE IF StagedConditions(a) = <<>> \/ "START" \notin a.columns
    THEN Accumulators(acc.details,
                      acc.members \cup Range(current_archive_ckd_patient_ids(a)))
    ELSE Accumulators(
             MergePatients(acc.details, SortedStagedConditions(a),
                           Unique(PatientColumn(SortedStagedConditions(a)))),
             acc.members \cup Range(current_archive_ckd_patient_ids(a)))

\* lines 65-213: the archive loop over the archives taken in the given order
RECURSIVE RunArchives(_, _, _)
RunArchives(acc, archives, order) ==
    IF order = <<>> THEN acc
    ELSE RunArchives(RunArchive(acc, archives[Head(order)]), archives, Tail(order))

\* Every order in which glob.glob may list n archives
Orders(n) == { o \in [1..n -> 1..n] : \A i, j \in 1..n : o[i] = o[j] => i = j }

NoLoopException == "error_in_loop" \notin Range(outcomes)

-----------------------------------------------------------------------------
(* Properties *)

\* C1: merge order-independence. When the run is over (no per-patient loop
\* having raised), running the archive loop over the same archives in any
\* other order gives the same patients with the same stage -> date maps after
\* refinement, and the same population-membership set.
C1_OrderIndependence ==
    (pc = "done" /\ NoLoopException) =>
        \A o \in Orders(Len(archive_files)) :
            LET r == RunArchives(Accumulators(<<>>, {}), archive_files, o)
            IN  /\ Progression(RefineDetails(r.details)) = GlobalProgression
                /\ r.members = all_ckd_patient_ids_overall_set

\* C1 witness: two archives were merged, the first holding the earlier date
\* of a (patient, stage) pair both of them report.
C1_Witness ==
    /\ pc = "done"
    /\ outcomes = <<"merged", "merged">>
    /\ \E x \in InWindowRecords(archive_files[1]),
          y \in InWindowRecords(archive_files[2]) :
            x[1] = y[1] /\ x[2] = y[2] /\ x[2] >= 1 /\ x[3] < y[3]

\* C2: minimum invariant. The date stored for a (patient, stage) is the
\* minimum of the in-window dates recorded for that stage and patient in the
\* archives that were merged for the patient, within one archive and across
\* archives.
C2_MinimumInvariant ==
    \A p \in DOMAIN GlobalProgression :
        \A s \in DOMAIN GlobalProgression[p] :
            /\ ObservedDates(p, s) # {}
            /\ GlobalProgression[p][s] = SetMin(ObservedDates(p, s))

\* C2 witness: at the end of the run a stored date comes from one merged
\* archive and is earlier than two distinct dates another merged archive
\* holds for the same (patient, stage).
C2_Witness ==
    /\ pc = "done"
    /\ \E p \in DOMAIN GlobalProgression :
          \E s \in DOMAIN GlobalProgression[p] :
            \E k1, k2 \in 1..Len(archive_files) :
              /\ k1 # k2
              /\ {<<k1, p>>, <<k2, p>>} \subseteq merged_from
              /\ <<p, s, GlobalProgression[p][s]>> \in InWindowRecords(archive_files[k2])
              /\ Cardinality({x \in InWindowRecords(archive_files[k1]) :
                                  /\ x[1] = p /\ x[2] = s
                                  /\ x[3] > GlobalProgression[p][s]}) >= 2

\* C3: the global store is monotone. In every step (a per-patient merge write,
\* the post-loop refinement) no patient and no (patient, stage) entry
\* disappears, no stored date increases, and every patient present after
\* the step has a non-empty stage map.
MonotoneStep ==
    LET before == GlobalProgression
        after == Progression(global_patient_progression_details')
    IN  /\ \A p \in DOMAIN before :
              /\ p \in DOMAIN after
              /\ \A s \in DOMAIN before[p] :
                    /\ s \in DOMAIN after[p]
                    /\ after[p][s] <= before[p][s]
        /\ \A p \in DOMAIN after : DOMAIN after[p] # {}

C3_Monotone == [][MonotoneStep]_vars

\* C3 witness: inside the per-patient loop, a merge write has lowered a date
\* that was stored when the archive started.
C3_Witness ==
    /\ pc = "patients"
    /\ \E p \in DOMAIN GlobalProgression \cap DOMAIN Progression(snapshot.details) :
          \E s \in DOMAIN Progression(snapshot.details)[p] :
              GlobalProgression[p][s] < Progression(snapshot.details)[p][s]

\* C4: failure isolation. No write to GlobalProgression happens while
\* patients of the archive are still to be reduced, and after an archive
\* ended in an except handler GlobalProgression is what it was when that
\* archive started.
C4_FailureIsolation ==
    /\ (pc = "patients" /\ patient_ids # <<>>) =>
           global_patient_progression_details = snapshot.details
    /\ (/\ pc = "archive"
        /\ idx > 1
        /\ outcomes[idx - 1] \in {"unreadable", "error_before_loop", "error_in_loop"}) =>
           global_patient_progression_details = snapshot.details

\* C5: an archive whose conditions.csv lacks PATIENT, CODE or START is
\* skipped as a whole: after its iteration neither the population-membership
\* set nor GlobalProgression has changed.
C5_MissingFieldsSkipped ==
    (/\ pc = "archive"
     /\ idx > 1
     /\ archive_files[idx - 1].kind = "ok"
     /\ archive_files[idx - 1].columns # AllColumns) =>
        /\ global_patient_progression_details = snapshot.details
        /\ all_ckd_patient_ids_overall_set = snapshot.members

\* The patients an archive contributes to the membership set: those with a
\* row whose code is in ckd_snomed_codes and that passed the date-range
\* filter, which is applied only where conditions.csv has a START column.
ListedPatients(a) ==
    IF a.kind = "ok" /\ HasCodeAndPatient(a)
    THEN { a.rows[k].PATIENT :
           k \in { j \in 1..Len(a.rows) :
                     /\ a.rows[j].CODE \in ckd_snomed_codes
                     /\ "START" \in a.columns =>
                            /\ a.rows[j].START.ok
                            /\ to_datetime(a.rows[j].START) >= CKD_DATE_RANGE_START
                            /\ to_datetime(a.rows[j].START) <= CKD_DATE_RANGE_END } }
    ELSE {}

ClassifiedPatients ==
    { x[1] : x \in UNION { InWindowRecords(archive_files[k]) :
                            k \in 1..Len(archive_files) } }

\* C6 as stated, on the runs whose archives are all readable with their
\* three columns: at the end of the run the membership set holds exactly the
\* patients with an in-window record whose code map_code_to_stage maps to a
\* stage 0..6, and every patient of GlobalProgression is a member.
C6_MembershipIffClassified ==
    (/\ pc = "done"
     /\ \A k \in 1..Len(archive_files) :
           archive_files[k].kind = "ok" /\ archive_files[k].columns = AllColumns) =>
        /\ all_ckd_patient_ids_overall_set = ClassifiedPatients
        /\ DOMAIN GlobalProgression \subseteq all_ckd_patient_ids_overall_set

\* C6 amended: at the end of the run the membership set holds exactly the
\* patients with, in an archive that has PATIENT and CODE columns, a row
\* whose code is in ckd_snomed_codes (four of which map_code_to_stage leaves
\* unmapped) and that passed the date-range filter (every row does where
\* there is no START column); every patient of GlobalProgression is a member.
C6_MembershipIffListed ==
    pc = "done" =>
        /\ all_ckd_patient_ids_overall_set =
               UNION { ListedPatients(archive_files[k]) : k \in 1..Len(archive_files) }
        /\ DOMAIN GlobalProgression \subseteq all_ckd_patient_ids_overall_set

\* C6 witness: every archive has all its columns, and P2 is a member without
\* any in-window record that the classifier maps to a stage.
C6_Witness ==
    /\ pc = "done"
    /\ archive_files # <<>>
    /\ \A k \in 1..Len(archive_files) :
          archive_files[k].kind = "ok" /\ archive_files[k].columns = AllColumns
    /\ "P2" \in all_ckd_patient_ids_overall_set
    /\ "P2" \notin ClassifiedPatients

\* C7: forward-only transitions. No emitted duration_days is ever <= 0,
\* neither in a transition's list of durations nor in a patient's record.
C7_ForwardOnly ==
    pc = "done" =>
        /\ \A k \in 1..Len(global_progression_times) :
              \A j \in 1..Len(global_progression_times[k][2]) :
                  global_progression_times[k][2][j] > 0
        /\ \A k \in 1..Len(patient_transition_output_list) :
              \A j \in 1..Len(patient_transition_output_list[k].calculated_transitions) :
                  patient_transition_output_list[k].calculated_transitions[j].duration_days > 0

\* The patient has in-window classified records, all of them of stage 0.
OnlyStageZero(p) ==
    /\ p \in ClassifiedPatients
    /\ \A k \in 1..Len(archive_files) :
          \A x \in InWindowRecords(archive_files[k]) : x[1] = p => x[2] = 0

\* C8: population vs. progression. Stage 0 is never a key of a patient's map
\* in GlobalProgression; at the end of the run a patient whose only
\* classified in-window records are of stage 0 is a member of the
\* population, is absent from GlobalProgression and has no record in the
\* transition output.
C8_PopulationVsProgression ==
    /\ \A p \in DOMAIN GlobalProgression : 0 \notin DOMAIN GlobalProgression[p]
    /\ pc = "done" =>
          \A p \in Range(Patients) :
              OnlyStageZero(p) =>
                  /\ p \in all_ckd_patient_ids_overall_set
                  /\ p \notin DOMAIN GlobalProgression
                  /\ \A k \in 1..Len(patient_transition_output_list) :
                        patient_transition_output_list[k].patient_id # p

\* C8 witness: at the end of the run a patient has only stage-0 records
\* while another patient is in GlobalProgression.
C8_Witness ==
    /\ pc = "done"
    /\ \E p \in Range(Patients) : OnlyStageZero(p)
    /\ GlobalProgression # <<>>

Frequency(durations, v) == Cardinality({j \in 1..Len(durations) : durations[j] = v})

MostFrequent(durations) ==
    { v \in Range(durations) :
        \A w \in Range(durations) : Frequency(durations, w) <= Frequency(durations, v) }

\* C9: mode set. For a transition with observations the reported modes are
\* exactly the values of maximal frequency, each once, in ascending order,
\* and the reported frequency is that maximum.
C9_ModeSet ==
    pc = "done" =>
        \A k \in 1..Len(summary_statistics) :
            LET e == summary_statistics[k]
                d == global_progression_times[k][2]
            IN  e.Count > 0 =>
                    /\ Range(e.Modes) = MostFrequent(d)
                    /\ \A i, j \in 1..Len(e.Modes) : i < j => e.Modes[i] < e.Modes[j]
                    /\ \A v \in MostFrequent(d) : e.ModeFrequency = Frequency(d, v)

\* The archives of the end-to-end scenario
ScenarioA ==
    [kind |-> "ok", columns |-> AllColumns,
     rows |-> << Row("P1", "431855005", Cell(2000, 1, 1, 0)),
                 Row("P1", "431856006", Cell(2000, 6, 1, 0)) >>]

ScenarioB ==
    [kind |-> "ok", columns |-> AllColumns,
     rows |-> << Row("P1", "431856006", Cell(2000, 5, 1, 0)) >>]

ScenarioRun ==
    /\ pc = "done"
    /\ archive_files \in {<<ScenarioA, ScenarioB>>, <<ScenarioB, ScenarioA>>}
    /\ NoLoopException

ScenarioResult(days) ==
    /\ GlobalProgression["P1"][2] = Timestamp(2000, 5, 1, 0)
    /\ global_progression_times[1] = <<"Stage 1 to Stage 2", <<days>>>>
    /\ \E k \in 1..Len(patient_transition_output_list) :
          /\ patient_transition_output_list[k].patient_id = "P1"
          /\ patient_transition_output_list[k].calculated_transitions =
                 <<[transition |-> "Stage 1 to Stage 2", duration_days |-> days]>>

\* C10 as stated: after archives A and B, in either order, P1's stage-2 date
\* is 2000-05-01 and the Stage 1 to Stage 2 duration emitted for P1 is 120 days.
C10_Scenario120 == ScenarioRun => ScenarioResult(120)

\* C10 amended: after archives A and B, in either order, P1's stage-2 date
\* is 2000-05-01 and the Stage 1 to Stage 2 duration emitted for P1 is 121
\* days (2000-01-01 to 2000-05-01, February 2000 having 29 days).
C10_Scenario121 == ScenarioRun => ScenarioResult(121)

\* C10 witness: the scenario was run with B, the earlier stage-2 date, first.
C10_Witness ==
    /\ ScenarioRun
    /\ archive_files = <<ScenarioB, ScenarioA>>
    /\ summary_statistics[1].Count = 1

-----------------------------------------------------------------------------
(* Completion of the run and the empty result *)

\* The number of steps the run has left at most: the four post-loop steps,
\* and for each archive still to do its iteration and one step per patient.
StepsPerArchive == Len(Patients) + 2
StepsLeft ==
    CASE pc = "done" -> 0
      [] pc = "output" -> 1
      [] pc = "stats" -> 2
      [] pc = "transitions" -> 3
      [] pc = "archive" ->
             4 + (Len(archive_files) + 1 - idx) * StepsPerArchive
      [] pc = "patients" ->
             4 + (Len(archive_files) - idx) * StepsPerArchive
               + Len(patient_ids) + 1

\* Every step of the run brings its end nearer.
RunProgresses == [][StepsLeft' < StepsLeft]_vars

\* The conditions under which the iteration of an archive takes one of its
\* ends (lines 68, 92-97, 140, 145, 160, 165, 169).
ArchiveHasAnEnd(a) ==
    \/ a.kind = "unreadable"
    \/ a.kind = "no_conditions_csv"
    \/ /\ a.kind = "ok"
       /\ \/ ~HasCodeAndPatient(a)
          \/ /\ HasCodeAndPatient(a)
             /\ \/ temp_ckd_conditions_df(a) = <<>>
                \/ /\ temp_ckd_conditions_df(a) # <<>>
                   /\ StagedConditions(a) = <<>>
                \/ /\ StagedConditions(a) # <<>>
                   /\ "START" \notin a.columns
                \/ /\ StagedConditions(a) # <<>>
                   /\ "START" \in a.columns

\* Until the last statement has run there is a next step: no archive and no
\* outcome of an archive stops the run.
RunNeverStops ==
    /\ pc \in {"archive", "patients", "transitions", "stats", "output", "done"}
    /\ pc = "archive" =>
          /\ idx \in 1..(Len(archive_files) + 1)
          /\ idx <= Len(archive_files) => ArchiveHasAnEnd(archive_files[idx])
    /\ pc = "patients" => idx \in 1..Len(archive_files)

\* Every archive of the run has ended its iteration with an outcome, and none
\* of the outcomes left the archive loop.
EveryArchiveEnded ==
    pc \in {"transitions", "stats", "output", "done"} =>
        /\ idx = Len(archive_files) + 1
        /\ Len(outcomes) = Len(archive_files)

\* A partition that is skipped: its source cannot be opened, a required file
\* or a required column (PATIENT, CODE, START) is absent, or none of its rows
\* carries a listed code within the date range.
PartitionSkipped(a) ==
    \/ a.kind # "ok"
    \/ a.columns # AllColumns
    \/ ListedPatients(a) = {}

\* The same, without the archives that have PATIENT and CODE but no START.
PartitionSkippedBeforeMembership(a) ==
    \/ a.kind # "ok"
    \/ ~HasCodeAndPatient(a)
    \/ ListedPatients(a) = {}

\* One summary entry per configured transition, in the configured order, with
\* count 0 and the sentinel in place of mean, median and mode.
NoDataSummary ==
    /\ Len(summary_statistics) = Len(stage_transitions)
    /\ \A k \in 1..Len(stage_transitions) :
          /\ summary_statistics[k].Transition = stage_transitions[k][1]
          /\ summary_statistics[k].Count = 0
          /\ summary_statistics[k].Mean = NotAvailable
          /\ summary_statistics[k].Median = NotAvailable
          /\ summary_statistics[k].ModeNA
          /\ summary_statistics[k].Modes = <<>>

EmptyResult ==
    /\ all_ckd_patient_ids_overall_set = {}
    /\ global_patient_progression_details = <<>>
    /\ NoDataSummary

\* C11: the run completes whatever each archive does, and when every archive
\* of the run was skipped (unreadable, a required file or column absent, or
\* nothing left after filtering; no archive at all included) the result is
\* empty: empty membership set, empty GlobalProgression and one summary
\* entry per configured transition, in configured order, with count 0 and
\* the no-data sentinel for mean, median and mode.
C11_AllSkippedEmptyResult ==
    /\ EveryArchiveEnded
    /\ (/\ pc = "done"
        /\ \A k \in 1..Len(archive_files) : PartitionSkipped(archive_files[k])) =>
           EmptyResult

\* What the code keeps of it: the result is empty when every archive ended
\* before line 150, and the progression and the summary are empty also when
\* an archive without START got as far as the membership update.
EmptyResultBeforeMembership ==
    /\ EveryArchiveEnded
    /\ (/\ pc = "done"
        /\ \A k \in 1..Len(archive_files) :
              PartitionSkippedBeforeMembership(archive_files[k])) =>
           EmptyResult
    /\ (/\ pc = "done"
        /\ \A k \in 1..Len(archive_files) : PartitionSkipped(archive_files[k])) =>
           /\ global_patient_progression_details = <<>>
           /\ NoDataSummary

\* A run of two skipped archives of different kinds that ended empty.
EmptyResultReached ==
    /\ pc = "done"
    /\ Len(archive_files) = 2
    /\ archive_files[1].kind = "unreadable"
    /\ archive_files[2].kind = "ok"
    /\ archive_files[2].rows # <<>>
    /\ PartitionSkippedBeforeMembership(archive_files[2])
    /\ EmptyResult

====
